---- MODULE Spec2Model ----
(***************************************************************************)
(* Domain assignment of the ordering graph (V3OrderProcessDomains.cpp).    *)
(*                                                                         *)
(* Pointers to AstSenTree are naturals: 0 is nullptr, 1 is the delete      *)
(* sentinel (reinterpret_cast<AstSenTree*>(1)), larger numbers are heap    *)
(* objects.  A heap object records its sensitivity items, whether it has a *)
(* back pointer (it is linked into the netlist, i.e. it is one of the      *)
(* global trees), its multi flag and whether it has been freed.            *)
(***************************************************************************)
EXTENDS Integers, Sequences, FiniteSets, TLC

\* ------------------------------------------------------------------------
\* Bounds of the model
NumVertices == 4      \* vertices of the ordering graph
MaxInEdges == 2       \* incoming edges per vertex
MaxCombineCalls == 2  \* calls made by the combineDomains harness
MaxStmts == 3         \* statements of the top module given to ProtectVisitor

\* ------------------------------------------------------------------------
\* Pointers
NullPtr == 0
m_deleteDomainp == 1

Vertex == 1..NumVertices

VARIABLES
    vertices,            \* m_graph.vertices(): the vertex list, in graph order
    kind,                \* dynamic type of each vertex
    inEdges,             \* vtxp->inEdges(): sequence of [fromp, weight]
    hybridp,             \* OrderLogicVertex::hybridp()
    externalDomains,     \* what m_externalDomains reports for a vertex's vscp
    domainp,             \* OrderEitherVertex::domainp()
    heap,                \* the AstSenTree objects
    m_logicpsToDelete,   \* logic that is never triggered
    pc,                  \* position of the constructor
    vi,                  \* position of the walk in the vertex list
    fatal,               \* message of the assertion that fired, or ""
    hist,                \* history: calls made and fields written so far
    entry,               \* the domain fields on entry to processDomains
    twin,                \* the same pass run on the graph without cut edges
    harness,             \* direct calls of combineDomains: operands and result
    vscp,                \* OrderVarVertex::vscp(): the variable of a vertex
    nodep,               \* logic vertices whose nodep() is still in the tree
    report,              \* the domains report file: written or not, its lines
    di,                  \* position of the deletion loop in m_logicpsToDelete
    netlist,             \* the modules that ProtectVisitor is run on
    pv                   \* the ProtectVisitor object and the position of its visit

vars == <<vertices, kind, inEdges, hybridp, externalDomains, domainp, heap,
          m_logicpsToDelete, pc, vi, fatal, hist, entry, twin, harness,
          vscp, nodep, report, di, netlist, pv>>

\* ------------------------------------------------------------------------
\* Vertex kinds
Kinds == {"Logic", "VarStd", "VarPre", "VarPost", "VarPord"}

isLogic(k) == k = "Logic"

isVar(k) == k # "Logic"

domainMatters(k) == k \in {"Logic", "VarStd"}

\* ------------------------------------------------------------------------
\* AstSenTree objects
ComboItem == 0

Tree(items, backp, multi) ==
    [items |-> items, backp |-> backp, multi |-> multi, live |-> TRUE]

hasCombo(h, p) == \E i \in 1..Len(h[p].items) : h[p].items[i] = ComboItem

ItemSet(h, p) == {h[p].items[i] : i \in 1..Len(h[p].items)}

Max(S) == CHOOSE x \in S : \A y \in S : y <= x

Min(S) == CHOOSE x \in S : \A y \in S : x <= y

\* Address of the next object the allocator hands out
NewPtr(h) == Max(DOMAIN h \cup {m_deleteDomainp}) + 1

\* A pointer that may be dereferenced.  A read through any other pointer is
\* undefined behaviour: the run is marked "invalid read", its position
\* becomes "undefined" and it is not followed further, so nothing is stated
\* about what the program does after such a read.
Valid(h, p) == p \in DOMAIN h /\ h[p].live

\* ------------------------------------------------------------------------
\* combineDomains: the pointer returned, the heap afterwards, and the message
\* of the assertion that fired ("" when none did)
combineDomainsAddsCombo(h, ap, bp) ==
    LET senTreep == IF h[ap].backp THEN NewPtr(h) ELSE ap
        h1 == IF h[ap].backp
              THEN h @@ (senTreep :> Tree(h[ap].items, FALSE, h[ap].multi))
              ELSE h
        h2 == [h1 EXCEPT ![senTreep].items = <<ComboItem>> \o @ \o h[bp].items]
        h3 == IF h[bp].backp THEN h2
              ELSE [h2 EXCEPT ![bp].items = <<>>, ![bp].live = FALSE]
    IN [heap |-> h3, ret |-> senTreep, fails |-> ""]

combineDomainsInPlace(h, ap, bp) ==
    LET h2 == [h EXCEPT ![ap].items = @ \o h[bp].items]
        h3 == IF h[bp].backp THEN h2
              ELSE [h2 EXCEPT ![bp].items = <<>>, ![bp].live = FALSE]
    IN [heap |-> h3, ret |-> ap, fails |-> ""]

combineDomainsBody(h, ap, bp) ==
    LET cloned == h[ap].backp
        senTreep == IF cloned THEN NewPtr(h) ELSE ap
        h1 == IF cloned
              THEN h @@ (senTreep :> Tree(h[ap].items, FALSE, h[ap].multi))
              ELSE h
        h2 == [h1 EXCEPT ![senTreep].items = @ \o h[bp].items]
        h3 == IF h[bp].backp THEN h2
              ELSE [h2 EXCEPT ![bp].items = <<>>, ![bp].live = FALSE]
    IN [heap |-> h3, ret |-> senTreep, fails |-> ""]

combineDomainsNoIdentity(h, ap, bp) ==
    IF ap = m_deleteDomainp THEN [heap |-> h, ret |-> bp, fails |-> ""]
    ELSE IF bp = m_deleteDomainp
    THEN [heap |-> h, ret |-> NullPtr, fails |-> "'bp' Should not be delete domain"]
    ELSE IF ~Valid(h, ap) \/ ~Valid(h, bp)
    THEN [heap |-> h, ret |-> NullPtr, fails |-> "invalid read"]
    ELSE combineDomainsBody(h, ap, bp)

combineDomainsCopiesB(h, ap, bp) ==
    IF ap = bp THEN [heap |-> h, ret |-> ap, fails |-> ""]
    ELSE IF ap = m_deleteDomainp
    THEN [heap |-> h @@ (NewPtr(h) :> Tree(h[bp].items, FALSE, h[bp].multi)),
          ret |-> NewPtr(h), fails |-> ""]
    ELSE IF bp = m_deleteDomainp
    THEN [heap |-> h, ret |-> NullPtr, fails |-> "'bp' Should not be delete domain"]
    ELSE IF ~Valid(h, ap) \/ ~Valid(h, bp)
    THEN [heap |-> h, ret |-> NullPtr, fails |-> "invalid read"]
    ELSE combineDomainsBody(h, ap, bp)

combineDomainsDropsB(h, ap, bp) ==
    IF ap = m_deleteDomainp THEN [heap |-> h, ret |-> bp, fails |-> ""]
    ELSE [heap |-> h, ret |-> ap, fails |-> ""]

combineDomains(h, ap, bp) ==
    IF ap = bp THEN [heap |-> h, ret |-> ap, fails |-> ""]
    ELSE IF ap = m_deleteDomainp THEN [heap |-> h, ret |-> bp, fails |-> ""]
    ELSE IF bp = m_deleteDomainp
    THEN [heap |-> h, ret |-> NullPtr, fails |-> "'bp' Should not be delete domain"]
    ELSE IF ~Valid(h, ap) \/ ~Valid(h, bp)
    THEN [heap |-> h, ret |-> NullPtr, fails |-> "invalid read"]
    ELSE combineDomainsBody(h, ap, bp)

\* ------------------------------------------------------------------------
\* V3Const::constifyExpensiveEdit on a sensitivity list: the items sorted,
\* duplicates removed
RECURSIVE SortedSeq(_)
SortedSeq(S) ==
    IF S = {} THEN <<>> ELSE <<Min(S)>> \o SortedSeq(S \ {Min(S)})

constifyExpensiveEdit(items) == SortedSeq({items[i] : i \in 1..Len(items)})

\* SenTreeFinder::getSenTree: the global tree structurally equal to *senTreep,
\* a linked clone of it when there is none
Globals(h) == {p \in DOMAIN h : h[p].live /\ h[p].backp}

getSenTree(h, senTreep) ==
    LET same == {p \in Globals(h) : h[p].items = h[senTreep].items}
    IN IF same # {} THEN [heap |-> h, ret |-> Min(same)]
       ELSE [heap |-> h @@ (NewPtr(h) :> Tree(h[senTreep].items, TRUE, h[senTreep].multi)),
             ret |-> NewPtr(h)]

simplifyDomainKeepsTransient(h, senTreep) ==
    IF h[senTreep].backp THEN [heap |-> h, ret |-> senTreep]
    ELSE [heap |-> [h EXCEPT ![senTreep].items = constifyExpensiveEdit(@),
                             ![senTreep].multi = TRUE],
          ret |-> senTreep]

simplifyDomainAlwaysClones(h, senTreep) ==
    IF h[senTreep].backp THEN [heap |-> h, ret |-> senTreep]
    ELSE LET h1 == [h EXCEPT ![senTreep].items = constifyExpensiveEdit(@),
                             ![senTreep].multi = TRUE,
                             ![senTreep].live = FALSE]
         IN [heap |-> h1 @@ (NewPtr(h1) :> Tree(h1[senTreep].items, TRUE, TRUE)),
             ret |-> NewPtr(h1)]

simplifyDomain(h, senTreep) ==
    IF h[senTreep].backp THEN [heap |-> h, ret |-> senTreep]
    ELSE LET h1 == [h EXCEPT ![senTreep].items = constifyExpensiveEdit(@),
                             ![senTreep].multi = TRUE]
             g == getSenTree(h1, senTreep)
         IN [heap |-> [g.heap EXCEPT ![senTreep].live = FALSE], ret |-> g.ret]

\* ------------------------------------------------------------------------
\* The state of one run of the pass, as a record: the heap, the domain
\* fields, the dead-logic list, the assertion that fired, and the history
RunState(h, d) ==
    [heap |-> h, domainp |-> d, m_logicpsToDelete |-> <<>>, fatal |-> "",
     extCalls |-> <<>>, combineCalls |-> {}, simplifyCalls |-> {},
     examined |-> {}, writes |-> [v \in Vertex |-> 0], reads |-> {}, derefs |-> {}]

\* Nothing has been called, written, read or dereferenced yet
NoHistory ==
    [extCalls |-> <<>>, combineCalls |-> {}, simplifyCalls |-> {},
     examined |-> {}, writes |-> [v \in Vertex |-> 0], reads |-> {}, derefs |-> {}]

\* debugDomain and the assertions next to each of its calls: the trees
\* whose members they read
debugDomainUnguarded(dp) == {dp}

debugDomain(dp) == IF dp = m_deleteDomainp THEN {} ELSE {dp}

\* The trees whose members a call of combineDomains reads
combineDerefs(ap, bp) ==
    IF ap = bp \/ ap = m_deleteDomainp \/ bp = m_deleteDomainp THEN {} ELSE {ap, bp}

\* A failed UASSERT: v3fatalSrc ends the process with the message
FailIgnored(r, msg) == r

Fail(r, msg) == [r EXCEPT !.fatal = msg]

\* "Sequential logic already has its domain set"
hasDomainNever(r, vtxp) == FALSE

hasDomain(r, vtxp) == r.domainp[vtxp] # NullPtr

\* "Cut edge"
isCutEdgeNever(edge) == FALSE

isCutEdge(edge) == edge.weight = 0

\* "Irrelevant input vertex (never triggered, not even externally)"
isIrrelevantInputNever(fromDomainp) == FALSE

isIrrelevantInput(fromDomainp) == fromDomainp = m_deleteDomainp

\* For each external domain of the source variable: check it, fold it in
RECURSIVE foldExternalDomains(_, _, _, _)
foldExternalDomains(r, externalDomainps, i, fromDomainp) ==
    IF r.fatal # "" \/ i > Len(externalDomainps)
    THEN [r |-> r, fromDomainp |-> fromDomainp]
    ELSE LET externalDomainp == externalDomainps[i]
             r0 == [r EXCEPT !.derefs = @ \cup {externalDomainp}]
         IN
         IF ~Valid(r.heap, externalDomainp)
         THEN [r |-> Fail(r0, "invalid read"), fromDomainp |-> fromDomainp]
         ELSE IF hasCombo(r.heap, externalDomainp)
         THEN [r |-> Fail(r0, "There should be no need for combinational domains"),
               fromDomainp |-> fromDomainp]
         ELSE IF ~r.heap[externalDomainp].backp
         THEN [r |-> Fail(r0, "External SenTree should have backp()"),
               fromDomainp |-> fromDomainp]
         ELSE LET c == combineDomains(r.heap, fromDomainp, externalDomainp)
                  r1 == [r0 EXCEPT !.heap = c.heap,
                                   !.combineCalls = @ \cup {<<fromDomainp, externalDomainp>>},
                                   !.derefs = @ \cup combineDerefs(fromDomainp, externalDomainp),
                                   !.fatal = c.fails]
              IN foldExternalDomains(r1, externalDomainps, i + 1, c.ret)

\* For each incoming edge of vtxp, examine the source vertex; dp is the local
\* variable domainp of processDomains
RECURSIVE foldInEdges(_, _, _, _, _)
foldInEdges(r, g, vtxp, e, dp) ==
    IF r.fatal # "" \/ e > Len(g.inEdges[vtxp])
    THEN [r |-> r, domainp |-> dp]
    ELSE LET edge == g.inEdges[vtxp][e]
             fromVtxp == edge.fromp
             r0 == [r EXCEPT !.examined = @ \cup {<<vtxp, e>>}]
             fromDomainp == r.domainp[fromVtxp]
             r1 == [r0 EXCEPT !.reads = @ \cup {<<vtxp, fromVtxp, fromDomainp>>},
                              !.derefs = @ \cup debugDomain(fromDomainp)]
         IN
         IF isCutEdge(edge) THEN foldInEdges(r0, g, vtxp, e + 1, dp)
         ELSE IF ~domainMatters(g.kind[fromVtxp]) THEN foldInEdges(r0, g, vtxp, e + 1, dp)
         ELSE IF fromDomainp # m_deleteDomainp /\ ~Valid(r.heap, fromDomainp)
         THEN [r |-> Fail(r1, "invalid read"), domainp |-> dp]
         ELSE IF fromDomainp # m_deleteDomainp /\ hasCombo(r.heap, fromDomainp)
         THEN [r |-> Fail(r1, "There should be no need for combinational domains"),
               domainp |-> dp]
         ELSE IF fromDomainp # m_deleteDomainp /\ ~r.heap[fromDomainp].backp
         THEN [r |-> Fail(r1, "Driver SenTree should have backp"), domainp |-> dp]
         ELSE LET x == IF isVar(g.kind[fromVtxp])
                       THEN foldExternalDomains(
                                [r1 EXCEPT !.extCalls = Append(@,
                                    [vtxp |-> vtxp, edge |-> e, fromp |-> fromVtxp])],
                                g.externalDomains[fromVtxp], 1, fromDomainp)
                       ELSE [r |-> r1, fromDomainp |-> fromDomainp]
              IN
              IF x.r.fatal # "" THEN [r |-> x.r, domainp |-> dp]
              ELSE IF isIrrelevantInput(x.fromDomainp)
              THEN foldInEdges(x.r, g, vtxp, e + 1, dp)
              ELSE IF dp = NullPtr
              THEN foldInEdges(x.r, g, vtxp, e + 1, x.fromDomainp)
              ELSE LET c == combineDomains(x.r.heap, dp, x.fromDomainp)
                       r2 == [x.r EXCEPT !.heap = c.heap,
                                         !.combineCalls = @ \cup {<<dp, x.fromDomainp>>},
                                         !.derefs = @ \cup combineDerefs(dp, x.fromDomainp),
                                         !.fatal = c.fails]
                   IN foldInEdges(r2, g, vtxp, e + 1, c.ret)

\* The end of an iteration: when nothing triggers the vertex it gets the
\* sentinel and, if it is logic, it is recorded for deletion; otherwise its
\* domain is simplified.  Then the domain of the vertex is set.
setDomainRecordsVariables(r, vtxp, lvtxp, dp) ==
    IF dp = NullPtr
    THEN [r EXCEPT !.domainp[vtxp] = m_deleteDomainp,
                   !.m_logicpsToDelete = Append(@, vtxp),
                   !.writes[vtxp] = @ + 1]
    ELSE LET sd == simplifyDomain(r.heap, dp) IN
         [r EXCEPT !.heap = sd.heap, !.domainp[vtxp] = sd.ret, !.writes[vtxp] = @ + 1]

setDomainForgetsDead(r, vtxp, lvtxp, dp) ==
    IF dp = NullPtr
    THEN [r EXCEPT !.domainp[vtxp] = m_deleteDomainp, !.writes[vtxp] = @ + 1]
    ELSE LET sd == simplifyDomain(r.heap, dp) IN
         [r EXCEPT !.heap = sd.heap, !.domainp[vtxp] = sd.ret, !.writes[vtxp] = @ + 1]

setDomain(r, vtxp, lvtxp, dp) ==
    IF dp = NullPtr
    THEN [r EXCEPT !.domainp[vtxp] = m_deleteDomainp,
                   !.m_logicpsToDelete = IF lvtxp THEN Append(@, vtxp) ELSE @,
                   !.writes[vtxp] = @ + 1,
                   !.derefs = @ \cup debugDomain(m_deleteDomainp)]
    ELSE IF ~Valid(r.heap, dp) THEN Fail([r EXCEPT !.derefs = @ \cup {dp}], "invalid read")
    ELSE LET sd == simplifyDomain(r.heap, dp) IN
         [r EXCEPT !.heap = sd.heap,
                   !.domainp[vtxp] = sd.ret,
                   !.writes[vtxp] = @ + 1,
                   !.derefs = @ \cup {dp} \cup debugDomain(sd.ret),
                   !.simplifyCalls = @ \cup
                       {[vtxp |-> vtxp, senTreep |-> dp, items |-> r.heap[dp].items,
                         backp |-> r.heap[dp].backp, ret |-> sd.ret]}]

\* One iteration of the walk of processDomains over the vertex vtxp
processVertex(r, g, vtxp) ==
    IF hasDomain(r, vtxp) THEN r
    ELSE LET lvtxp == isLogic(g.kind[vtxp])
             seed == IF lvtxp THEN g.hybridp[vtxp] ELSE NullPtr
             r0 == IF seed # NullPtr THEN [r EXCEPT !.derefs = @ \cup {seed}] ELSE r
         IN
         IF seed # NullPtr /\ ~Valid(r.heap, seed) THEN Fail(r0, "invalid read")
         ELSE IF seed # NullPtr /\ ~r.heap[seed].backp
         THEN Fail(r0, "Hybrid senTree should have backp")
         ELSE LET f == foldInEdges(r0, g, vtxp, 1, seed) IN
              IF f.r.fatal # "" THEN f.r
              ELSE setDomain(f.r, vtxp, lvtxp, f.domainp)

\* ------------------------------------------------------------------------
\* The graph as the pass sees it, and the same graph without its cut edges
Graph ==
    [kind |-> kind, inEdges |-> inEdges, hybridp |-> hybridp,
     externalDomains |-> externalDomains]

NonCut(edges) == SelectSeq(edges, LAMBDA edge : edge.weight # 0)

NoCutGraph == [Graph EXCEPT !.inEdges = [v \in Vertex |-> NonCut(inEdges[v])]]

\* The run state held in the variables
Cur ==
    [heap |-> heap, domainp |-> domainp, m_logicpsToDelete |-> m_logicpsToDelete,
     fatal |-> fatal, extCalls |-> hist.extCalls, combineCalls |-> hist.combineCalls,
     simplifyCalls |-> hist.simplifyCalls, examined |-> hist.examined,
     writes |-> hist.writes, reads |-> hist.reads, derefs |-> hist.derefs]

Becomes(r) ==
    /\ heap' = r.heap
    /\ domainp' = r.domainp
    /\ m_logicpsToDelete' = r.m_logicpsToDelete
    /\ fatal' = r.fatal
    /\ hist' = [extCalls |-> r.extCalls, combineCalls |-> r.combineCalls,
                simplifyCalls |-> r.simplifyCalls, examined |-> r.examined,
                writes |-> r.writes, reads |-> r.reads, derefs |-> r.derefs]

\* ------------------------------------------------------------------------
\* The global trees that exist before the pass
InitHeap ==
    (2 :> Tree(<<1>>, TRUE, FALSE)) @@ (3 :> Tree(<<2>>, TRUE, FALSE))
    @@ (4 :> Tree(<<3>>, TRUE, FALSE)) @@ (5 :> Tree(<<1, 2>>, TRUE, FALSE))

\* What a driver can be: its kind, its domain on entry, its hybrid
\* sensitivity, the external domains of its variable.  The first two
\* vertices of the list are the drivers; the later vertices are logic that
\* reads them.
Drivers == {1, 2}

DriverProfiles ==
    {[kind |-> "Logic", pre |-> NullPtr, hybridp |-> NullPtr, ext |-> <<>>],
     [kind |-> "Logic", pre |-> NullPtr, hybridp |-> 5, ext |-> <<>>],
     [kind |-> "Logic", pre |-> 2, hybridp |-> NullPtr, ext |-> <<>>],
     [kind |-> "VarStd", pre |-> NullPtr, hybridp |-> NullPtr, ext |-> <<>>],
     [kind |-> "VarStd", pre |-> NullPtr, hybridp |-> NullPtr, ext |-> <<4>>],
     [kind |-> "VarStd", pre |-> 3, hybridp |-> NullPtr, ext |-> <<4, 2>>],
     [kind |-> "VarPre", pre |-> NullPtr, hybridp |-> NullPtr, ext |-> <<>>]}

ReaderProfiles ==
    {[kind |-> "Logic", pre |-> NullPtr, hybridp |-> NullPtr, ext |-> <<>>]}

\* The incoming edges a vertex can have, as lists of sources: drivers earlier
\* in the list, without repetition, for the non-cut edges and, for a reader,
\* possibly 0 in front for a cut edge, which comes from the next vertex round
\* the list.  (A negative source is an edge that is not cut and comes from
\* the next vertex round the list: no well-formed graph has one.)
CutSource(v) == (v % NumVertices) + 1

Range(l) == {l[i] : i \in 1..Len(l)}

RECURSIVE NonCutLists(_, _)
NonCutLists(v, n) ==
    IF n = 0 THEN {<<>>}
    ELSE LET shorter == NonCutLists(v, n - 1) IN
         shorter \cup UNION {{Append(l, f) : f \in {d \in Drivers : d < v} \ Range(l)} :
                                l \in shorter}

SourceLists(v) ==
    NonCutLists(v, MaxInEdges)
        \cup (IF v \in Drivers THEN {}
              ELSE {<<0>> \o l : l \in NonCutLists(v, MaxInEdges - 1)})

EdgesFrom(v, l) ==
    [i \in 1..Len(l) |->
        IF l[i] = 0 THEN [fromp |-> CutSource(v), weight |-> 0]
        ELSE IF l[i] < 0 THEN [fromp |-> CutSource(v), weight |-> 1]
        ELSE [fromp |-> l[i], weight |-> 1]]

VertexChoices(v) ==
    {[prof |-> p, sources |-> l] :
        p \in (IF v \in Drivers THEN DriverProfiles ELSE ReaderProfiles),
        l \in SourceLists(v)}

DriverChoices ==
    {<<c1, c2>> : c1 \in VertexChoices(1), c2 \in VertexChoices(2)}

\* Readers differ only in their incoming edges, and exchanging two readers
\* renames vertices: their source lists are taken in non-decreasing order
RECURSIVE Code(_)
Code(l) == IF l = <<>> THEN 0 ELSE 1 + Head(l) + 4 * Code(Tail(l))

ReaderChoices ==
    {[prof |-> c.prof, sources |-> c.sources, code |-> Code(c.sources)] :
        c \in VertexChoices(NumVertices)}

RECURSIVE ReaderLists(_)
ReaderLists(n) ==
    IF n = 0 THEN {<<>>}
    ELSE UNION {{Append(g, c) : c \in {x \in ReaderChoices :
                                          g = <<>> \/ g[Len(g)].code <= x.code}} :
                   g \in ReaderLists(n - 1)}

GraphChoices ==
    {d \o r : d \in DriverChoices, r \in ReaderLists(NumVertices - Cardinality(Drivers))}

\* ------------------------------------------------------------------------
\* ProtectVisitor (V3ProtectLib.cpp): its text blocks.  Those of the
\* sequential path are made only when the top module has a clock.
CombBlocks ==
    {"m_modPortsp", "m_comboPortsp", "m_comboIgnorePortsp", "m_comboDeclsp",
     "m_seqDeclsp", "m_tmpDeclsp", "m_hashValuep", "m_comboParamsp",
     "m_comboAssignsp", "m_cHashValuep", "m_cComboParamsp", "m_cComboInsp",
     "m_cComboOutsp", "m_cIgnoreParamsp"}

SeqBlocks ==
    {"m_seqPortsp", "m_clkSensp", "m_comboIgnoreParamsp", "m_seqParamsp",
     "m_nbAssignsp", "m_seqAssignsp", "m_cSeqParamsp", "m_cSeqClksp",
     "m_cSeqOutsp"}

Blocks == CombBlocks \cup SeqBlocks

\* A ProtectVisitor as constructed: every block pointer is null.  Besides
\* the members: the blocks dereferenced so far, the blocks dereferenced
\* while null, the variables handled as clocks, the ports reported as
\* unsupported, and the position of the visit.
NoVisitor ==
    [m_foundTop |-> FALSE, m_hasClk |-> FALSE, created |-> {},
     text |-> [b \in Blocks |-> <<>>], used |-> {}, nullUse |-> {},
     clocks |-> {}, unsupported |-> {}, mi |-> 1, si |-> 1]

\* The variable of a variable vertex (0 for logic).  A variable has at most
\* one vertex of each kind, and variables are told apart by their address:
\* the first driver is variable 2 (its {PRE} vertex), 4 or 1, the second is
\* variable 2 or 3, so that the list holds the variables in either order and
\* can hold two vertices of variable 2.
VscpOf(v, p) ==
    IF isLogic(p.kind) THEN 0
    ELSE IF v = 1
    THEN (IF p.kind = "VarPre" THEN 2 ELSE IF p.ext = <<>> THEN 4 ELSE 1)
    ELSE (IF p.kind = "VarStd" /\ p.ext = <<>> THEN 2 ELSE 3)

\* The state on entry to the constructor, for a family of graphs and a heap
Start(choices, h) ==
    /\ vertices = [i \in 1..NumVertices |-> i]
    /\ \E g \in choices :
        /\ kind = [v \in Vertex |-> g[v].prof.kind]
        /\ hybridp = [v \in Vertex |-> g[v].prof.hybridp]
        /\ externalDomains = [v \in Vertex |-> g[v].prof.ext]
        /\ domainp = [v \in Vertex |-> g[v].prof.pre]
        /\ inEdges = [v \in Vertex |-> EdgesFrom(v, g[v].sources)]
        /\ vscp = [v \in Vertex |-> VscpOf(v, g[v].prof)]
        /\ nodep = {v \in Vertex : isLogic(g[v].prof.kind)}
    /\ heap = h
    /\ m_logicpsToDelete = <<>>
    /\ pc = "domains"
    /\ vi = 1
    /\ fatal = ""
    /\ hist = NoHistory
    /\ entry = domainp
    /\ twin = RunState(heap, domainp)
    /\ harness = <<>>
    /\ report = [written |-> FALSE, lines |-> <<>>]
    /\ di = 1
    /\ netlist = <<>>
    /\ pv = NoVisitor

Init == Start(GraphChoices, InitHeap)

\* ------------------------------------------------------------------------
\* processDomains: one iteration of the walk
ProcessVertex ==
    /\ pc = "domains"
    /\ vi <= Len(vertices)
    /\ LET r == processVertex(Cur, Graph, vertices[vi]) IN
        /\ Becomes(r)
        /\ pc' = IF r.fatal = "invalid read" THEN "undefined"
                 ELSE IF r.fatal # "" THEN "fatal"
                 ELSE pc
    /\ twin' = processVertex(twin, NoCutGraph, vertices[vi])
    /\ vi' = vi + 1
    /\ UNCHANGED <<vertices, kind, inEdges, hybridp, externalDomains, entry, harness,
                   vscp, nodep, report, di,
                   netlist, pv>>

\* processDomains returns
ReturnDomains ==
    /\ pc = "domains"
    /\ vi > Len(vertices)
    /\ pc' = "returned"
    /\ UNCHANGED <<vertices, kind, inEdges, hybridp, externalDomains, domainp, heap,
                   m_logicpsToDelete, vi, fatal, hist, entry, twin, harness,
                   vscp, nodep, report, di,
                   netlist, pv>>

Next == ProcessVertex \/ ReturnDomains

Spec == Init /\ [][Next]_vars

\* ------------------------------------------------------------------------
\* processEdgeReport.  A line is the sequence of its characters, a character
\* is a number, and lines compare as std::string does.
RECURSIVE LexLess(_, _)
LexLess(a, b) ==
    IF b = <<>> THEN FALSE
    ELSE IF a = <<>> THEN TRUE
    ELSE IF Head(a) # Head(b) THEN Head(a) < Head(b)
    ELSE LexLess(Tail(a), Tail(b))

\* stable_sort: each line goes behind the lines that are not greater than it
insertLine(sorted, line) ==
    LET n == Cardinality({i \in 1..Len(sorted) : ~LexLess(line, sorted[i])})
    IN SubSeq(sorted, 1, n) \o <<line>> \o SubSeq(sorted, n + 1, Len(sorted))

RECURSIVE stable_sort(_)
stable_sort(lines) ==
    IF lines = <<>> THEN <<>>
    ELSE insertLine(stable_sort(SubSeq(lines, 1, Len(lines) - 1)), lines[Len(lines)])

\* The name of a variable; names need not follow the order of the addresses
prettyName(scp) == <<5 - scp>>

\* The name is padded with blanks, which sort before " {PORD}", " {POST}"
\* and " {PRE}", in this order
NoTag == 0

PordTag == 1

PostTag == 2

PreTag == 3

kindTag(k) ==
    IF k = "VarPre" THEN PreTag
    ELSE IF k = "VarPost" THEN PostTag
    ELSE IF k = "VarPord" THEN PordTag
    ELSE NoTag

\* "DELETED", or the items of the tree with " or " between them
DeletedText == 9

OrText == 8

RECURSIVE itemsText(_)
itemsText(items) ==
    IF Len(items) <= 1 THEN items
    ELSE <<Head(items), OrText>> \o itemsText(Tail(items))

domainText(h, senTreep) ==
    IF senTreep = m_deleteDomainp THEN <<DeletedText>>
    ELSE IF ~Valid(h, senTreep) THEN <<>>
    ELSE itemsText(h[senTreep].items)

reportLine(h, scp, k, senTreep) ==
    <<scp>> \o prettyName(scp) \o <<kindTag(k)>> \o domainText(h, senTreep)

\* The lines of the report, in the order in which they are written
processEdgeReportUnsorted(vs, k, scp, d, h) ==
    LET vvertexps == SelectSeq(vs, LAMBDA v : isVar(k[v]))
    IN [i \in 1..Len(vvertexps) |->
            reportLine(h, scp[vvertexps[i]], k[vvertexps[i]], d[vvertexps[i]])]

processEdgeReport(vs, k, scp, d, h) ==
    LET vvertexps == SelectSeq(vs, LAMBDA v : isVar(k[v]))
    IN stable_sort([i \in 1..Len(vvertexps) |->
            reportLine(h, scp[vvertexps[i]], k[vvertexps[i]], d[vvertexps[i]])])

\* The trees whose items the report reads
reportDerefs(vs, k, d) ==
    {d[vs[i]] : i \in {j \in 1..Len(vs) : isVar(k[vs[j]]) /\ d[vs[j]] # m_deleteDomainp}}

\* The constructor after processDomains: the optional graph dump changes
\* nothing; with dumpLevel() set the report is written
ProcessEdgeReport ==
    /\ pc = "returned"
    /\ LET read == reportDerefs(vertices, kind, domainp)
           crash == \E p \in read : ~Valid(heap, p)
       IN
        /\ hist' = [hist EXCEPT !.derefs = @ \cup read]
        /\ fatal' = IF crash THEN "invalid read" ELSE fatal
        /\ pc' = IF crash THEN "undefined" ELSE "delete"
        /\ report' = IF crash THEN report
                     ELSE [written |-> TRUE,
                           lines |-> processEdgeReport(vertices, kind, vscp, domainp, heap)]
    /\ UNCHANGED <<vertices, kind, inEdges, hybridp, externalDomains, domainp, heap,
                   m_logicpsToDelete, vi, entry, twin, harness, vscp, nodep, di,
                   netlist, pv>>

\* "Can't write file"
ReportFileFails ==
    /\ pc = "returned"
    /\ fatal' = "Can't write file"
    /\ pc' = "fatal"
    /\ UNCHANGED <<vertices, kind, inEdges, hybridp, externalDomains, domainp, heap,
                   m_logicpsToDelete, vi, hist, entry, twin, harness, vscp, nodep,
                   report, di,
                   netlist, pv>>

\* dumpLevel() is zero: no report
SkipEdgeReport ==
    /\ pc = "returned"
    /\ pc' = "delete"
    /\ UNCHANGED <<vertices, kind, inEdges, hybridp, externalDomains, domainp, heap,
                   m_logicpsToDelete, vi, fatal, hist, entry, twin, harness, vscp,
                   nodep, report, di,
                   netlist, pv>>

\* V3GraphVertex::unlinkDelete: the vertex leaves the list, its edges go
unlinkDelete(vs, es, vtxp) ==
    [vertices |-> SelectSeq(vs, LAMBDA v : v # vtxp),
     inEdges |-> [v \in DOMAIN es |->
                    IF v = vtxp THEN <<>>
                    ELSE SelectSeq(es[v], LAMBDA edge : edge.fromp # vtxp)]]

\* "Delete logic that is never triggered": one iteration of the loop
DeleteLogicDuringWalk ==
    /\ pc \in {"domains", "delete"}
    /\ di <= Len(m_logicpsToDelete)
    /\ LET lVtxp == m_logicpsToDelete[di]
           g == unlinkDelete(vertices, inEdges, lVtxp)
       IN
        /\ nodep' = nodep \ {lVtxp}
        /\ vertices' = g.vertices
        /\ inEdges' = g.inEdges
        /\ di' = di + 1
        /\ UNCHANGED <<fatal, pc>>
    /\ UNCHANGED <<kind, hybridp, externalDomains, domainp, heap, m_logicpsToDelete,
                   vi, hist, entry, twin, harness, vscp, report,
                   netlist, pv>>

DeleteLogic ==
    /\ pc = "delete"
    /\ di <= Len(m_logicpsToDelete)
    /\ LET lVtxp == m_logicpsToDelete[di]
           g == unlinkDelete(vertices, inEdges, lVtxp)
       IN
        IF lVtxp \notin Range(vertices)
        THEN /\ fatal' = "invalid read"
             /\ pc' = "undefined"
             /\ UNCHANGED <<nodep, vertices, inEdges, di>>
        ELSE IF domainp[lVtxp] # m_deleteDomainp
        THEN /\ fatal' = "Should have been marked as deleted"
             /\ pc' = "fatal"
             /\ UNCHANGED <<nodep, vertices, inEdges, di>>
        ELSE /\ nodep' = nodep \ {lVtxp}
             /\ vertices' = g.vertices
             /\ inEdges' = g.inEdges
             /\ di' = di + 1
             /\ UNCHANGED <<fatal, pc>>
    /\ UNCHANGED <<kind, hybridp, externalDomains, domainp, heap, m_logicpsToDelete,
                   vi, hist, entry, twin, harness, vscp, report,
                   netlist, pv>>

\* The constructor returns
Finish ==
    /\ pc = "delete"
    /\ di > Len(m_logicpsToDelete)
    /\ pc' = "done"
    /\ UNCHANGED <<vertices, kind, inEdges, hybridp, externalDomains, domainp, heap,
                   m_logicpsToDelete, vi, fatal, hist, entry, twin, harness, vscp,
                   nodep, report, di,
                   netlist, pv>>

NextCtor ==
    \/ ProcessVertex
    \/ ReturnDomains
    \/ ProcessEdgeReport
    \/ ReportFileFails
    \/ SkipEdgeReport
    \/ DeleteLogic
    \/ Finish

SpecCtor == Init /\ [][NextCtor]_vars

\* ------------------------------------------------------------------------
\* The constructor on graphs that break what the pass requires of its
\* caller: besides the trees above, a global tree with a combinational
\* term, a global tree with a combinational term and a clock, and a tree
\* that is not global
AnyHeap ==
    InitHeap @@ (6 :> Tree(<<ComboItem>>, TRUE, FALSE))
             @@ (7 :> Tree(<<ComboItem, 1>>, TRUE, FALSE))
             @@ (8 :> Tree(<<2>>, FALSE, FALSE))

AnyDriverProfiles ==
    DriverProfiles \cup
    {[kind |-> "Logic", pre |-> 6, hybridp |-> NullPtr, ext |-> <<>>],
     [kind |-> "Logic", pre |-> 8, hybridp |-> NullPtr, ext |-> <<>>],
     [kind |-> "Logic", pre |-> NullPtr, hybridp |-> 7, ext |-> <<>>],
     [kind |-> "Logic", pre |-> NullPtr, hybridp |-> 8, ext |-> <<>>],
     [kind |-> "VarStd", pre |-> NullPtr, hybridp |-> NullPtr, ext |-> <<6>>],
     [kind |-> "VarStd", pre |-> NullPtr, hybridp |-> NullPtr, ext |-> <<2, 8>>]}

\* The first driver may have an edge, not cut, from the second; all readers
\* have the same incoming edges
AnyDriverChoices ==
    {<<[prof |-> p1, sources |-> l1], [prof |-> p2, sources |-> l2]>> :
        p1 \in AnyDriverProfiles, l1 \in {<<>>, <<-1>>},
        p2 \in AnyDriverProfiles, l2 \in {<<>>, <<1>>}}

AnyReaderLists ==
    {[i \in 1..(NumVertices - Cardinality(Drivers)) |-> c] : c \in ReaderChoices}

AnyGraphChoices == {d \o r : d \in AnyDriverChoices, r \in AnyReaderLists}

InitAny == Start(AnyGraphChoices, AnyHeap)

SpecAny == InitAny /\ [][NextCtor]_vars

\* ------------------------------------------------------------------------
\* combineDomains on its own: the global trees and two intermediate trees,
\* and calls on any two pointers that may be passed
HarnessHeap ==
    InitHeap @@ (6 :> Tree(<<1>>, FALSE, FALSE)) @@ (7 :> Tree(<<2, 3>>, FALSE, TRUE))

InitCombine ==
    /\ vertices = <<>>
    /\ kind = [v \in Vertex |-> "Logic"]
    /\ inEdges = [v \in Vertex |-> <<>>]
    /\ hybridp = [v \in Vertex |-> NullPtr]
    /\ externalDomains = [v \in Vertex |-> <<>>]
    /\ domainp = [v \in Vertex |-> NullPtr]
    /\ heap = HarnessHeap
    /\ m_logicpsToDelete = <<>>
    /\ pc = "harness"
    /\ vi = 1
    /\ fatal = ""
    /\ hist = NoHistory
    /\ entry = domainp
    /\ twin = RunState(heap, domainp)
    /\ harness = <<>>
    /\ vscp = [v \in Vertex |-> 0]
    /\ nodep = {}
    /\ report = [written |-> FALSE, lines |-> <<>>]
    /\ di = 1
    /\ netlist = <<>>
    /\ pv = NoVisitor

Operands(h) == {m_deleteDomainp} \cup {p \in DOMAIN h : h[p].live}

CallCombineDomains ==
    /\ pc = "harness"
    /\ Len(harness) < MaxCombineCalls
    /\ \E ap \in Operands(heap), bp \in Operands(heap) :
        LET c == combineDomains(heap, ap, bp) IN
        /\ heap' = c.heap
        /\ harness' = Append(harness, [ap |-> ap, bp |-> bp, ret |-> c.ret,
                                       fails |-> c.fails, before |-> heap,
                                       after |-> c.heap])
    /\ UNCHANGED <<vertices, kind, inEdges, hybridp, externalDomains, domainp,
                   m_logicpsToDelete, pc, vi, fatal, hist, entry, twin,
                   vscp, nodep, report, di,
                   netlist, pv>>

NextCombine == CallCombineDomains

SpecCombine == InitCombine /\ [][NextCombine]_vars

\* ------------------------------------------------------------------------
\* The statements of a module: variables, by what visit(AstVar*) and
\* checkIfClockExists ask of them, and nodes that are not variables
Var(isIO, direction, isUsedClock, attrClocker) ==
    [var |-> TRUE, isIO |-> isIO, direction |-> direction,
     isUsedClock |-> isUsedClock, attrClocker |-> attrClocker]

Statements ==
    {Var(TRUE, "INPUT", TRUE, FALSE),
     Var(TRUE, "INPUT", FALSE, TRUE),
     Var(TRUE, "INPUT", FALSE, FALSE),
     Var(TRUE, "OUTPUT", FALSE, FALSE),
     Var(TRUE, "INOUT", FALSE, FALSE),
     Var(FALSE, "NONE", FALSE, FALSE),
     Var(FALSE, "NONE", TRUE, FALSE),
     [var |-> FALSE, isIO |-> FALSE, direction |-> "NONE",
      isUsedClock |-> FALSE, attrClocker |-> FALSE]}

RECURSIVE StatementLists(_)
StatementLists(n) ==
    IF n = 0 THEN {<<>>}
    ELSE LET shorter == StatementLists(n - 1) IN
         shorter \cup {Append(l, x) : l \in shorter, x \in Statements}

TopModules == {[isTop |-> TRUE, stmtsp |-> l] : l \in StatementLists(MaxStmts)}

OtherModule == [isTop |-> FALSE, stmtsp |-> <<Var(TRUE, "INPUT", TRUE, FALSE)>>]

SecondTop == [isTop |-> TRUE, stmtsp |-> <<Var(TRUE, "OUTPUT", FALSE, FALSE)>>]

\* The netlists: a top module alone, with a module that is not top in front
\* of it or behind it, or with a second top module behind it
Netlists ==
    UNION {{<<m>>, <<OtherModule, m>>, <<m, OtherModule>>, <<m, SecondTop>>} :
              m \in TopModules}

\* A variable that is an input and a clock
isClockInputNoClocker(varp) ==
    varp.var /\ varp.direction = "INPUT" /\ varp.isUsedClock

isClockInput(varp) ==
    varp.var /\ varp.direction = "INPUT" /\ (varp.isUsedClock \/ varp.attrClocker)

checkIfClockExists(modp) ==
    \E i \in 1..Len(modp.stmtsp) : isClockInput(modp.stmtsp[i])

\* new AstTextBlock for each member in the set
create(v, bs) == [v EXCEPT !.created = @ \cup bs]

\* createSvFile and createCppFile
createFiles(v) ==
    create(v, IF v.m_hasClk THEN Blocks ELSE CombBlocks)

\* b->addText / b->addNodesp for a variable: a dereference of the member b
add(v, b, x) ==
    IF v.nullUse # {} THEN v
    ELSE IF b \notin v.created THEN [v EXCEPT !.nullUse = {b}]
    ELSE [v EXCEPT !.text[b] = Append(@, x), !.used = @ \cup {b}]

RECURSIVE addAll(_, _, _)
addAll(v, bs, x) ==
    IF bs = <<>> THEN v ELSE addAll(add(v, Head(bs), x), Tail(bs), x)

handleInput(v, x) == add(v, "m_modPortsp", x)

handleClock(v, x) ==
    LET v1 == add(handleInput(v, x), "m_seqPortsp", x)
        v2 == IF v1.m_hasClk THEN addAll(v1, <<"m_seqParamsp", "m_clkSensp">>, x) ELSE v1
        v3 == addAll(v2, <<"m_cSeqParamsp", "m_cSeqClksp">>, x)
    IN [v3 EXCEPT !.clocks = @ \cup {x}]

handleDataInput(v, x) ==
    LET v1 == addAll(handleInput(v, x),
                     <<"m_comboPortsp", "m_comboParamsp", "m_comboIgnorePortsp">>, x)
        v2 == IF v1.m_hasClk THEN add(v1, "m_comboIgnoreParamsp", x) ELSE v1
    IN addAll(v2, <<"m_cComboParamsp", "m_cComboInsp", "m_cIgnoreParamsp">>, x)

handleOutput(v, x) ==
    LET v1 == addAll(v, <<"m_modPortsp", "m_comboPortsp", "m_comboParamsp">>, x)
        v2 == IF v1.m_hasClk THEN addAll(v1, <<"m_seqPortsp", "m_seqParamsp">>, x) ELSE v1
        v3 == add(v2, "m_comboDeclsp", x)
        v4 == IF v3.m_hasClk
              THEN addAll(v3, <<"m_seqDeclsp", "m_tmpDeclsp", "m_nbAssignsp",
                                "m_seqAssignsp">>, x)
              ELSE v3
        v5 == addAll(v4, <<"m_comboAssignsp", "m_cComboParamsp", "m_cComboOutsp">>, x)
    IN IF v5.m_hasClk THEN addAll(v5, <<"m_cSeqParamsp", "m_cSeqOutsp">>, x) ELSE v5

\* The state before ProtectVisitor runs on a netlist
InitProtect ==
    /\ netlist \in Netlists
    /\ pv = NoVisitor
    /\ pc = "netlist"
    /\ fatal = ""
    /\ vertices = <<>>
    /\ kind = [v \in Vertex |-> "Logic"]
    /\ inEdges = [v \in Vertex |-> <<>>]
    /\ hybridp = [v \in Vertex |-> NullPtr]
    /\ externalDomains = [v \in Vertex |-> <<>>]
    /\ domainp = [v \in Vertex |-> NullPtr]
    /\ heap = InitHeap
    /\ m_logicpsToDelete = <<>>
    /\ vi = 1
    /\ hist = NoHistory
    /\ entry = domainp
    /\ twin = RunState(heap, domainp)
    /\ harness = <<>>
    /\ vscp = [v \in Vertex |-> 0]
    /\ nodep = {}
    /\ report = [written |-> FALSE, lines |-> <<>>]
    /\ di = 1

passVars ==
    <<vertices, kind, inEdges, hybridp, externalDomains, domainp, heap,
      m_logicpsToDelete, vi, hist, entry, twin, harness, vscp, nodep, report, di>>

\* visit(AstNodeModule*) up to iterateChildren
VisitModule ==
    /\ pc = "netlist"
    /\ pv.mi <= Len(netlist)
    /\ LET modp == netlist[pv.mi] IN
        IF ~modp.isTop
        THEN /\ pv' = [pv EXCEPT !.mi = @ + 1]
             /\ UNCHANGED <<pc, fatal>>
        ELSE IF pv.m_foundTop
        THEN /\ fatal' = "Multiple root modules"
             /\ pc' = "fatal"
             /\ UNCHANGED pv
        ELSE /\ pv' = createFiles([pv EXCEPT !.m_hasClk = checkIfClockExists(modp),
                                             !.si = 1])
             /\ pc' = "module"
             /\ UNCHANGED fatal
    /\ UNCHANGED <<netlist, passVars>>

\* iterateChildren of the top module: visit(AstVar*) or visit(AstNode*)
VisitVar ==
    /\ pc = "module"
    /\ pv.si <= Len(netlist[pv.mi].stmtsp)
    /\ LET stmtp == netlist[pv.mi].stmtsp[pv.si]
           x == pv.si
           v == [pv EXCEPT !.si = @ + 1]
           clock == stmtp.isUsedClock \/ stmtp.attrClocker
       IN
        IF ~stmtp.var \/ ~stmtp.isIO
        THEN pv' = v /\ UNCHANGED <<pc, fatal>>
        ELSE IF stmtp.direction = "INPUT" /\ clock /\ ~pv.m_hasClk
        THEN /\ fatal' = "checkIfClockExists() didn't find this clock"
             /\ pc' = "fatal"
             /\ pv' = v
        ELSE LET w == IF stmtp.direction = "INPUT" /\ clock THEN handleClock(v, x)
                      ELSE IF stmtp.direction = "INPUT" THEN handleDataInput(v, x)
                      ELSE IF stmtp.direction = "OUTPUT" THEN handleOutput(v, x)
                      ELSE [v EXCEPT !.unsupported = @ \cup {x}]
             IN /\ pv' = w
                /\ pc' = IF w.nullUse # {} THEN "undefined" ELSE pc
                /\ fatal' = IF w.nullUse # {} THEN "invalid read" ELSE fatal
    /\ UNCHANGED <<netlist, passVars>>

\* visit(AstNodeModule*) after iterateChildren: the hash values
FinishModule ==
    /\ pc = "module"
    /\ pv.si > Len(netlist[pv.mi].stmtsp)
    /\ LET v == addAll(pv, <<"m_hashValuep", "m_cHashValuep">>, 0) IN
        /\ pv' = [v EXCEPT !.m_foundTop = TRUE, !.mi = @ + 1]
        /\ pc' = IF v.nullUse # {} THEN "undefined" ELSE "netlist"
        /\ fatal' = IF v.nullUse # {} THEN "invalid read" ELSE fatal
    /\ UNCHANGED <<netlist, passVars>>

\* visit(AstNetlist*) returns
FinishNetlist ==
    /\ pc = "netlist"
    /\ pv.mi > Len(netlist)
    /\ pc' = "protected"
    /\ UNCHANGED <<fatal, pv, netlist, passVars>>

NextProtect == VisitModule \/ VisitVar \/ FinishModule \/ FinishNetlist

SpecProtect == InitProtect /\ [][NextProtect]_vars

\* ========================================================================
\* Properties

Processed(v) == hist.writes[v] > 0

EmptyOnEntry(v) == entry[v] = NullPtr

Real(p) == p # NullPtr /\ p # m_deleteDomainp

Edges(v) == 1..Len(inEdges[v])

\* The edges the walk takes into account: not cut, from a source whose kind
\* matters
Counted(v, e) ==
    inEdges[v][e].weight # 0 /\ domainMatters(kind[inEdges[v][e].fromp])

ExternalsOf(f) == IF isVar(kind[f]) THEN externalDomains[f] ELSE <<>>

\* Items a counted edge brings: those of the source's domain and those of the
\* external domains of a source variable
EdgeItems(v, e) ==
    LET f == inEdges[v][e].fromp IN
    (IF Real(domainp[f]) THEN ItemSet(heap, domainp[f]) ELSE {})
        \cup UNION {ItemSet(heap, ExternalsOf(f)[i]) : i \in 1..Len(ExternalsOf(f))}

SeedItems(v) ==
    IF isLogic(kind[v]) /\ hybridp[v] # NullPtr THEN ItemSet(heap, hybridp[v]) ELSE {}

ExpectedItems(v) ==
    SeedItems(v) \cup UNION {EdgeItems(v, e) : e \in {x \in Edges(v) : Counted(v, x)}}

\* C1: a vertex that was empty on entry is assigned the global domain whose
\* items are the union of its hybrid seed, the domains of the sources of its
\* counted edges and the external domains of those sources that are
\* variables (the sentinel when that union is empty)
C1_DomainIsUnion ==
    \A v \in Vertex :
        (EmptyOnEntry(v) /\ Processed(v)) =>
            IF ExpectedItems(v) = {}
            THEN domainp[v] = m_deleteDomainp
            ELSE /\ domainp[v] \in Globals(heap)
                 /\ ItemSet(heap, domainp[v]) = ExpectedItems(v)

C1_Witness ==
    /\ pc = "returned"
    /\ \E v \in Vertex :
        /\ EmptyOnEntry(v)
        /\ Processed(v)
        /\ domainp[v] \in Globals(heap)
        /\ \E e1 \in Edges(v), e2 \in Edges(v) :
            /\ Counted(v, e1)
            /\ Counted(v, e2)
            /\ isVar(kind[inEdges[v][e1].fromp])
            /\ domainp[inEdges[v][e1].fromp] = m_deleteDomainp
            /\ externalDomains[inEdges[v][e1].fromp] # <<>>
            /\ Real(domainp[inEdges[v][e2].fromp])
            /\ ~(EdgeItems(v, e1) \subseteq EdgeItems(v, e2))

NoNonCutEdges(v) == \A e \in Edges(v) : inEdges[v][e].weight = 0

NoExternalsOnPredecessors(v) ==
    \A e \in Edges(v) : externalDomains[inEdges[v][e].fromp] = <<>>

IsDead(v) ==
    /\ domainp[v] = m_deleteDomainp
    /\ \E i \in 1..Len(m_logicpsToDelete) : m_logicpsToDelete[i] = v

\* C2 as stated: every logic vertex that was empty on entry and has no
\* non-cut incoming edge, with no external domains on any predecessor, gets
\* the sentinel and is recorded in the dead-logic list
C2_Original ==
    \A v \in Vertex :
        (isLogic(kind[v]) /\ EmptyOnEntry(v) /\ Processed(v)
            /\ NoNonCutEdges(v) /\ NoExternalsOnPredecessors(v)) => IsDead(v)

\* C2 amended: every logic vertex that was empty on entry, has no hybrid
\* sensitivity and has no non-cut incoming edge, with no external domains on
\* any predecessor, gets the sentinel and is recorded in the dead-logic list
C2_DeadWithoutHybrid ==
    \A v \in Vertex :
        (isLogic(kind[v]) /\ EmptyOnEntry(v) /\ Processed(v)
            /\ hybridp[v] = NullPtr
            /\ NoNonCutEdges(v) /\ NoExternalsOnPredecessors(v)) => IsDead(v)

C2_Witness ==
    \E v \in Vertex :
        /\ isLogic(kind[v]) /\ EmptyOnEntry(v) /\ Processed(v)
        /\ hybridp[v] = NullPtr
        /\ NoNonCutEdges(v) /\ NoExternalsOnPredecessors(v)
        /\ Len(inEdges[v]) > 0
        /\ IsDead(v)

CallsOf(calls) == [i \in 1..Len(calls) |-> <<calls[i].vtxp, calls[i].fromp>>]

\* C3: the run on the graph and the run on the same graph without its
\* zero-weight edges assign the same domain to every vertex, leave the same
\* heap and dead-logic list and make the same callback invocations, none of
\* them for a zero-weight edge
C3_CutEdgeExclusion ==
    /\ twin.domainp = domainp
    /\ twin.heap = heap
    /\ twin.m_logicpsToDelete = m_logicpsToDelete
    /\ twin.fatal = fatal
    /\ CallsOf(twin.extCalls) = CallsOf(hist.extCalls)
    /\ \A i \in 1..Len(hist.extCalls) :
        inEdges[hist.extCalls[i].vtxp][hist.extCalls[i].edge].weight # 0

C3_Witness ==
    /\ pc = "returned"
    /\ \E v \in Vertex, e \in 1..MaxInEdges :
        /\ e \in Edges(v)
        /\ EmptyOnEntry(v)
        /\ inEdges[v][e].weight = 0
        /\ isVar(kind[inEdges[v][e].fromp])
        /\ Real(domainp[inEdges[v][e].fromp])
        /\ externalDomains[inEdges[v][e].fromp] # <<>>
        /\ domainp[v] = m_deleteDomainp

\* C4: a domain field never holds an intermediate or freed tree, only the
\* sentinel or a global tree, and when processDomains has returned every
\* vertex has a domain
C4_OnlyCanonicalStored ==
    /\ \A v \in Vertex :
        Real(domainp[v]) => (Valid(heap, domainp[v]) /\ heap[domainp[v]].backp)
    /\ pc = "returned" => \A v \in Vertex : domainp[v] # NullPtr

C4_Witness ==
    /\ pc = "returned"
    /\ \E s \in hist.simplifyCalls :
        /\ ~s.backp
        /\ SeedItems(s.vtxp) = {}
        /\ Cardinality({e \in Edges(s.vtxp) : Counted(s.vtxp, e)}) = 1
        /\ heap[domainp[s.vtxp]].backp

\* C5: a domain field is written only when it is empty, and at most once; a
\* vertex that arrives with a domain keeps it, is not recorded as dead and
\* none of its incoming edges is examined; a vertex that arrives empty has
\* been written exactly once when the walk is over
C5_StateOk ==
    /\ \A v \in Vertex : hist.writes[v] <= 1
    /\ \A v \in Vertex :
        ~EmptyOnEntry(v) =>
            /\ domainp[v] = entry[v]
            /\ hist.writes[v] = 0
            /\ \A i \in 1..Len(m_logicpsToDelete) : m_logicpsToDelete[i] # v
            /\ \A x \in hist.examined : x[1] # v
    /\ pc = "returned" => \A v \in Vertex : EmptyOnEntry(v) => hist.writes[v] = 1

C5_StepOk ==
    \A v \in Vertex :
        domainp'[v] # domainp[v] =>
            (domainp[v] = NullPtr /\ hist'.writes[v] = hist.writes[v] + 1)

C5_WriteOnce == []C5_StateOk /\ [][C5_StepOk]_vars

C5_Witness ==
    /\ pc = "returned"
    /\ \E v \in Vertex, w \in Vertex :
        /\ ~EmptyOnEntry(v)
        /\ \E e \in Edges(v) : Counted(v, e) /\ Real(domainp[inEdges[v][e].fromp])
                                /\ domainp[inEdges[v][e].fromp] # domainp[v]
        /\ EmptyOnEntry(w)
        /\ hist.writes[w] = 1

\* The contributions a vertex receives, in the order of its incoming edges:
\* for each counted edge that brings anything, the source's domain and the
\* external domains of the source
Contributes(edge) ==
    /\ edge.weight # 0
    /\ domainMatters(kind[edge.fromp])
    /\ (domainp[edge.fromp] # m_deleteDomainp \/ ExternalsOf(edge.fromp) # <<>>)

Contributions(v) ==
    LET es == SelectSeq(inEdges[v], Contributes) IN
    [i \in 1..Len(es) |-> <<domainp[es[i].fromp], ExternalsOf(es[i].fromp)>>]

Reverse(l) == [i \in 1..Len(l) |-> l[Len(l) + 1 - i]]

SeedOf(v) == IF isLogic(kind[v]) THEN hybridp[v] ELSE NullPtr

C7_Interning ==
    /\ \A s \in hist.simplifyCalls, t \in hist.simplifyCalls :
        (~s.backp /\ ~t.backp /\ s.items = t.items) => s.ret = t.ret
    /\ pc = "returned" =>
        \A u \in Vertex, w \in Vertex :
            (Real(domainp[u]) /\ Real(domainp[w])) =>
                (heap[domainp[u]].items = heap[domainp[w]].items
                    <=> domainp[u] = domainp[w])

C7_Witness ==
    /\ pc = "returned"
    /\ \E s \in hist.simplifyCalls, t \in hist.simplifyCalls :
        /\ s.vtxp # t.vtxp
        /\ s.senTreep # t.senTreep
        /\ ~s.backp /\ ~t.backp
        /\ s.items = t.items
        /\ s.ret = t.ret
        /\ domainp[s.vtxp] = domainp[t.vtxp]

\* C8: combineDomains(sentinel, d) returns d itself for every real tree d,
\* global or intermediate, and leaves the heap as it was
C8_SentinelAbsorption ==
    \A i \in 1..Len(harness) :
        (harness[i].ap = m_deleteDomainp /\ harness[i].bp # m_deleteDomainp) =>
            /\ harness[i].ret = harness[i].bp
            /\ harness[i].fails = ""
            /\ harness[i].after = harness[i].before

C8_Witness ==
    \E i \in 1..Len(harness), j \in 1..Len(harness) :
        /\ harness[i].ap = m_deleteDomainp
        /\ harness[j].ap = m_deleteDomainp
        /\ Real(harness[i].bp) /\ harness[i].before[harness[i].bp].backp
        /\ Real(harness[j].bp) /\ ~harness[j].before[harness[j].bp].backp
        /\ harness[i].ret = harness[i].bp
        /\ harness[j].ret = harness[j].bp

\* C9: combineDomains(d, d) returns d for every d, global, intermediate or
\* the sentinel, and leaves the heap as it was
C9_CombineWithSelf ==
    \A i \in 1..Len(harness) :
        harness[i].ap = harness[i].bp =>
            /\ harness[i].ret = harness[i].ap
            /\ harness[i].fails = ""
            /\ harness[i].after = harness[i].before

C9_Witness ==
    \E i \in 1..Len(harness), j \in 1..Len(harness) :
        /\ harness[i].ap = harness[i].bp
        /\ harness[j].ap = harness[j].bp
        /\ harness[i].ap = m_deleteDomainp
        /\ Real(harness[j].ap) /\ ~harness[j].before[harness[j].ap].backp
        /\ harness[j].ret = harness[j].ap
        /\ harness[j].after[harness[j].ap].live

\* C10: the walk never calls combineDomains with the sentinel as second
\* operand and another domain as first operand, so the assertion on 'bp'
\* never fires
C10_NoSentinelSecondOperand ==
    /\ \A c \in hist.combineCalls : ~(c[2] = m_deleteDomainp /\ c[1] # m_deleteDomainp)
    /\ fatal # "'bp' Should not be delete domain"

C10_Witness ==
    /\ pc = "returned"
    /\ \E c \in hist.combineCalls : c[1] = m_deleteDomainp /\ Real(c[2])
    /\ \E v \in Vertex, e1 \in 1..MaxInEdges, e2 \in 1..MaxInEdges :
        /\ e1 \in Edges(v) /\ e2 \in Edges(v)
        /\ e1 < e2
        /\ EmptyOnEntry(v)
        /\ Contributes(inEdges[v][e1])
        /\ Counted(v, e2)
        /\ ~Contributes(inEdges[v][e2])


\* ------------------------------------------------------------------------
\* The vertices still in the graph, and those among them that are variables
InGraph == Range(vertices)

VarVertices == {v \in InGraph : isVar(kind[v])}

\* C11: the lines of the report, one for each variable vertex, are written
\* in strictly increasing lexicographic order, whatever the order of the
\* vertex list; and writing the report changes no domain field, no vertex,
\* no edge and not the list of dead logic.
C11_StateOk ==
    report.written =>
        /\ \A i \in 1..Len(report.lines), j \in 1..Len(report.lines) :
                i < j => LexLess(report.lines[i], report.lines[j])
        /\ Len(report.lines) = Cardinality(VarVertices)
        /\ \A v \in VarVertices :
                \E i \in 1..Len(report.lines) :
                    report.lines[i] = reportLine(heap, vscp[v], kind[v], domainp[v])

C11_StepOk ==
    report' # report =>
        UNCHANGED <<domainp, vertices, inEdges, m_logicpsToDelete, nodep, heap>>

C11_ReportSorted == []C11_StateOk /\ [][C11_StepOk]_vars

\* The report of two variable vertices that the list holds in the other order
C11_Witness ==
    /\ report.written
    /\ Len(report.lines) = 2
    /\ report.lines # processEdgeReportUnsorted(vertices, kind, vscp, domainp, heap)

\* ------------------------------------------------------------------------
\* The vertex list places every vertex behind the sources of those of its
\* incoming edges that are not cut and whose source's domain matters
Position(v) == CHOOSE i \in 1..Len(vertices) : vertices[i] = v

Topological ==
    \A v \in InGraph : \A e \in 1..Len(inEdges[v]) :
        LET edge == inEdges[v][e] IN
        (edge.weight # 0 /\ domainMatters(kind[edge.fromp]))
            => Position(edge.fromp) < Position(v)

\* C12: when the vertex list is in such an order, every domain field that
\* processDomains reads from a predecessor is set (to a tree or to the
\* sentinel) when it is read, so no empty field is read or dereferenced; and
\* the walk comes to each vertex once.
C12_PredecessorAssigned ==
    (pc \in {"domains", "returned", "fatal", "undefined"} /\ Topological) =>
        /\ \A x \in hist.reads : x[3] # NullPtr
        /\ NullPtr \notin hist.derefs
        /\ \A x \in hist.examined : Position(x[1]) < vi
        /\ \A v \in Vertex : hist.writes[v] <= 1
        /\ vi <= Len(vertices) + 1

\* A reader has read the domain that the walk assigned to its predecessor
C12_Witness ==
    /\ pc = "returned"
    /\ Topological
    /\ \E x \in hist.reads :
        /\ entry[x[2]] = NullPtr
        /\ hist.writes[x[2]] = 1
        /\ Real(x[3])

\* ------------------------------------------------------------------------
\* The messages of the assertions of the pass
Assertions ==
    {"There should be no need for combinational domains",
     "Driver SenTree should have backp",
     "External SenTree should have backp()",
     "Hybrid senTree should have backp",
     "'bp' Should not be delete domain",
     "Should have been marked as deleted"}

\* A tree that a checked input must not be
Offends(p) == Valid(heap, p) /\ (hasCombo(heap, p) \/ ~heap[p].backp)

\* C13: each violation that the pass checks for (a predecessor's domain or
\* an external domain with a combinational term or not canonical, a hybrid
\* sensitivity that is not canonical, a dead-logic entry without the
\* sentinel) ends the pass where it is detected: an assertion fires, and
\* from then on no domain field is written, no vertex, edge or logic is
\* removed, and the constructor does not return.
C13_StateOk ==
    /\ fatal \in Assertions => pc = "fatal"
    /\ (\E x \in hist.reads : Offends(x[3])) => fatal \in Assertions
    /\ (\E i \in 1..Len(hist.extCalls) :
            \E j \in 1..Len(externalDomains[hist.extCalls[i].fromp]) :
                Offends(externalDomains[hist.extCalls[i].fromp][j]))
        => fatal \in Assertions
    /\ (\E v \in Vertex :
            /\ v < vi
            /\ isLogic(kind[v])
            /\ entry[v] = NullPtr
            /\ hybridp[v] # NullPtr
            /\ Valid(heap, hybridp[v])
            /\ ~heap[hybridp[v]].backp)
        => fatal \in Assertions

C13_StepOk ==
    /\ fatal \in Assertions =>
        UNCHANGED <<domainp, vertices, inEdges, nodep, m_logicpsToDelete, pc, report>>
    /\ fatal' \in Assertions =>
        UNCHANGED <<domainp, vertices, inEdges, nodep, m_logicpsToDelete, report>>

C13_FatalAtDetection == []C13_StateOk /\ [][C13_StepOk]_vars

\* An assertion has fired in the middle of the walk: an earlier vertex has
\* its domain, the vertex at which it fired and a later one have none
C13_Witness ==
    /\ pc = "fatal"
    /\ fatal \in Assertions
    /\ \E v \in Vertex : hist.writes[v] = 1
    /\ \E v \in Vertex, w \in Vertex : v # w /\ domainp[v] = NullPtr /\ domainp[w] = NullPtr

\* ------------------------------------------------------------------------
\* C14: while the deletion loop runs, every vertex still to be deleted has
\* the sentinel as its domain and is in the graph, and no vertex is in the
\* dead-logic list twice, so the re-check never fails; after the loop no
\* logic vertex with the sentinel is left in the graph; a variable vertex
\* with the sentinel stays, and so does every vertex with a real domain:
\* what is removed is logic with the sentinel, with its logic.
C14_DeadLogicCollection ==
    /\ \A i \in 1..Len(m_logicpsToDelete), j \in 1..Len(m_logicpsToDelete) :
            m_logicpsToDelete[i] = m_logicpsToDelete[j] => i = j
    /\ pc = "delete" =>
            \A i \in di..Len(m_logicpsToDelete) :
                /\ domainp[m_logicpsToDelete[i]] = m_deleteDomainp
                /\ m_logicpsToDelete[i] \in InGraph
    /\ fatal # "Should have been marked as deleted"
    /\ pc = "done" =>
            \A v \in InGraph : isLogic(kind[v]) => domainp[v] # m_deleteDomainp
    /\ \A v \in Vertex :
            /\ isVar(kind[v]) => v \in InGraph
            /\ Real(domainp[v]) => v \in InGraph /\ (isLogic(kind[v]) => v \in nodep)
            /\ v \notin InGraph =>
                    /\ isLogic(kind[v])
                    /\ domainp[v] = m_deleteDomainp
                    /\ v \notin nodep
                    /\ \A w \in InGraph : \A e \in 1..Len(inEdges[w]) :
                            inEdges[w][e].fromp # v

\* After the loop: dead logic is gone, a variable with the sentinel and
\* logic with a real domain are still there
C14_Witness ==
    /\ pc = "done"
    /\ \E v \in Vertex : v \notin InGraph
    /\ \E v \in InGraph : isVar(kind[v]) /\ domainp[v] = m_deleteDomainp
    /\ \E v \in InGraph : isLogic(kind[v]) /\ Real(domainp[v])

\* ------------------------------------------------------------------------
\* C15: no vertex and no edge leaves the graph, and the logic of no vertex
\* is discarded, before the walk has given every vertex its domain and the
\* graph dump and the report, when asked for, have been produced; the walk
\* itself changes neither the vertices nor the edges.
C15_StateOk ==
    pc \in {"domains", "returned"} =>
        /\ InGraph = Vertex
        /\ nodep = {v \in Vertex : isLogic(kind[v])}
        /\ di = 1

C15_StepOk ==
    /\ (vertices' # vertices \/ inEdges' # inEdges \/ nodep' # nodep) =>
            /\ pc = "delete"
            /\ \A v \in Vertex : domainp[v] # NullPtr
    /\ pc = "domains" => UNCHANGED <<vertices, inEdges, nodep, kind>>

C15_DeferredDeletion == []C15_StateOk /\ [][C15_StepOk]_vars

\* Dead logic has been deleted, after the report was written
C15_Witness ==
    /\ pc = "delete"
    /\ di > 1
    /\ report.written
    /\ InGraph # Vertex

C17_StateOk ==
    \A p \in DOMAIN heap : heap[p].live => heap[p].backp

C17_StepOk ==
    \A p \in Globals(heap) : p \in DOMAIN heap' /\ heap'[p] = heap[p]

C17_CanonicalImmutable == []C17_StateOk /\ [][C17_StepOk]_vars

\* Two canonical trees were combined, and a third was combined into the
\* result, which has since been deleted
C17_Witness ==
    \E c \in hist.combineCalls, d \in hist.combineCalls :
        /\ c[1] \in Globals(heap) /\ c[2] \in Globals(heap)
        /\ d[1] \in DOMAIN heap /\ ~heap[d[1]].live
        /\ d[2] \in Globals(heap)

\* ------------------------------------------------------------------------
\* What the pass is given has no combinational term: the domains set on
\* entry, the external domains of the variables, the hybrid sensitivities
NoComboOnEntry ==
    \A v \in Vertex : Valid(heap, entry[v]) => ~hasCombo(heap, entry[v])

NoComboExternal ==
    \A v \in Vertex : \A j \in 1..Len(externalDomains[v]) :
        Valid(heap, externalDomains[v][j]) => ~hasCombo(heap, externalDomains[v][j])

NoComboHybrid ==
    \A v \in Vertex : Valid(heap, hybridp[v]) => ~hasCombo(heap, hybridp[v])

\* No domain that the pass has assigned has a combinational term, and the
\* assertion against such a term has not fired on a predecessor whose domain
\* the pass assigned
NoComboAssigned ==
    /\ \A v \in Vertex :
            (Processed(v) /\ Valid(heap, domainp[v])) => ~hasCombo(heap, domainp[v])
    /\ \A x \in hist.reads :
            (Processed(x[2]) /\ Valid(heap, x[3])) => ~hasCombo(heap, x[3])

\* C18 as stated: if no domain set on entry and no external domain has a
\* combinational term, then no domain that the pass assigns has one, also
\* for logic that starts from a hybrid sensitivity.
C18_Original == (NoComboOnEntry /\ NoComboExternal) => NoComboAssigned

\* C18: if no domain set on entry, no external domain and no hybrid
\* sensitivity has a combinational term, then no domain that the pass
\* assigns has one, and the assertion against combinational domains never
\* fires on a predecessor whose domain the pass assigned.
C18_NoComboPreserved ==
    (NoComboOnEntry /\ NoComboExternal /\ NoComboHybrid) => NoComboAssigned

\* Logic that started from a hybrid sensitivity and took in a predecessor
\* has been read by a later vertex
C18_Witness ==
    /\ pc = "returned"
    /\ NoComboOnEntry /\ NoComboExternal /\ NoComboHybrid
    /\ \E x \in hist.reads :
        /\ hybridp[x[2]] # NullPtr
        /\ Processed(x[2])
        /\ Valid(heap, x[3])
        /\ x[3] # hybridp[x[2]]

\* ------------------------------------------------------------------------
\* C19: ProtectVisitor uses the text blocks of the sequential path only
\* after it has made them.  Whenever visit(AstVar*) takes an input port for
\* a clock, m_hasClk is true, so the assertion "checkIfClockExists() didn't
\* find this clock" never fires; no block is dereferenced while it is null;
\* and when the top module has no clock input, no block of the sequential
\* path is made or dereferenced.
C19_SeqBlocksCreatedBeforeUse ==
    /\ fatal # "checkIfClockExists() didn't find this clock"
    /\ pv.nullUse = {}
    /\ pc # "undefined"
    /\ pv.used \subseteq pv.created
    /\ pv.clocks # {} => pv.m_hasClk
    /\ pv.m_hasClk =>
            \E m \in 1..Len(netlist) : netlist[m].isTop /\ checkIfClockExists(netlist[m])
    /\ ~pv.m_hasClk =>
            /\ pv.used \cap SeqBlocks = {}
            /\ pv.created \cap SeqBlocks = {}
            /\ \A b \in SeqBlocks : pv.text[b] = <<>>

\* The top module had a clock and an output: both have been written to
\* blocks of the sequential path
C19_Witness ==
    /\ pc = "protected"
    /\ pv.m_hasClk
    /\ pv.clocks # {}
    /\ {"m_clkSensp", "m_cSeqClksp", "m_cSeqOutsp", "m_nbAssignsp"} \subseteq pv.used

\* The top module had no clock, and its inputs and outputs were handled
C19_WitnessNoClock ==
    /\ pc = "protected"
    /\ ~pv.m_hasClk
    /\ {"m_comboParamsp", "m_cComboOutsp", "m_cComboInsp"} \subseteq pv.used

====
